---- MODULE Spec2Model ----
(***************************************************************************)
(* Model of the dDTF connectivity / surrogate significance code:           *)
(*   src/mGrangerStats2.py  (generate_surrogate, significance_testing)     *)
(*   src/mGrangerdDTF.py    (compute_E, compute_H_h, compute_S_f,          *)
(*                           in_out_degree, execute_sequence)              *)
(*                                                                         *)
(* Complex numbers are elements of the ring Z[z], z = exp(2 pi i / 12),    *)
(* written <<a, b, c, d>> for a + b z + c z^2 + d z^3 (z^4 = z^2 - 1).     *)
(* The ring holds i = z^3 and the roots of unity of order 1, 2, 3, 4, 6    *)
(* and 12, so the discrete Fourier transform of a series of one of these   *)
(* lengths, and a phase factor exp(2 pi i u) with u a multiple of 1/12,    *)
(* are exact.                                                              *)
(***************************************************************************)
EXTENDS Integers, Sequences, FiniteSets, TLC

VARIABLES
    \* ---- generate_surrogate (SpecGen)
    original_data,   \* self.original_data: [0..T-1 -> [0..C-1 -> Int]]
    seed,            \* the seed the caller fixes before each call
    rng,             \* state of the global numpy generator
    call,            \* which of the two calls of generate_surrogate runs
    s,               \* loop variable of line 24
    ic,              \* loop variable of line 25
    pc,              \* position inside generate_surrogate
    original_fft,    \* line 27
    phases1,         \* line 36
    phases2,         \* lines 37 and 43
    surrogate_fft,   \* line 40
    written,         \* number of assignments each bin of surrogate_fft received
    surrogate_data,  \* line 23; holds 2*T times the real value (see Ifft2T)
    first_run,       \* the tensor the first call returned
    \* ---- significance_testing (SpecSig)
    my_pvalue,       \* the significance level, an index into PLevels
    sig_pc,          \* position inside significance_testing
    dDTF_og,         \* line 64
    su,              \* line 68
    sig_s,           \* loop variable of line 69
    failed,          \* the surrogate sets on which the pipeline raised
    p_values,        \* line 65
    sig_i,           \* loop variable of line 76
    sig_j,           \* loop variable of line 77
    significant_connections,  \* line 85
    network,         \* line 92, <<>> until it is computed
    \* ---- the connectivity pipeline (SpecDtf)
    dtf_pc,          \* position inside execute_sequence
    data,            \* self.data: [0..T-1 -> [0..C-1 -> Int]]
    A_n,             \* self.A_n
    errors,          \* self.errors
    H,               \* self.H
    H_h,             \* self.H_h
    V,               \* self.V
    S_f,             \* self.S_f
    dDTF_ij,         \* self.dDTF_ij
    degrees          \* what in_out_degree returned

varsGen == <<original_data, seed, rng, call, s, ic, pc, original_fft, phases1,
             phases2, surrogate_fft, written, surrogate_data, first_run>>

varsSig == <<my_pvalue, sig_pc, dDTF_og, su, sig_s, failed, p_values, sig_i, sig_j,
             significant_connections, network>>

varsDtf == <<dtf_pc, data, A_n, errors, H, H_h, V, S_f, dDTF_ij, degrees>>

vars == <<varsGen, varsSig, varsDtf>>

\* -------------------------------------------------------------------------
\* Bounds of the model
\* -------------------------------------------------------------------------
\* generate_surrogate
NumSets == 2
NumICs == 1
MaxT == 4
MaxSeed == 1

\* series lengths whose Fourier transform is exact in the ring
Lens == {n \in 1..MaxT : 12 % n = 0}
\* sample values of the input series
DataVals == {0, 1}

\* -------------------------------------------------------------------------
\* Complex arithmetic
\* -------------------------------------------------------------------------
ZZero == <<0, 0, 0, 0>>

ZInt(k) == <<k, 0, 0, 0>>

ZAdd(x, y) == <<x[1] + y[1], x[2] + y[2], x[3] + y[3], x[4] + y[4]>>

ZScale(k, x) == <<k * x[1], k * x[2], k * x[3], k * x[4]>>

\* x * z
ZRot(x) == <<-x[4], x[1], x[2] + x[4], x[3]>>

\* x * z^k
RECURSIVE ZRotN(_, _)
ZRotN(x, k) == IF k = 0 THEN x ELSE ZRotN(ZRot(x), k - 1)

ZMul(x, y) ==
    ZAdd(ZAdd(ZScale(y[1], x), ZScale(y[2], ZRotN(x, 1))),
         ZAdd(ZScale(y[3], ZRotN(x, 2)), ZScale(y[4], ZRotN(x, 3))))

\* complex conjugate: conj(z^k) = z^(12-k)
ZConj(x) ==
    ZAdd(ZAdd(ZInt(x[1]), ZRotN(ZInt(x[2]), 11)),
         ZAdd(ZRotN(ZInt(x[3]), 10), ZRotN(ZInt(x[4]), 9)))

\* 2 * np.real(x)
ZTwiceReal(x) == ZAdd(x, ZConj(x))

\* |x|^2
ZAbs2(x) == ZMul(x, ZConj(x))

\* sum of f[lo], ..., f[hi]
RECURSIVE ZSum(_, _, _)
ZSum(f, lo, hi) == IF lo > hi THEN ZZero ELSE ZAdd(f[lo], ZSum(f, lo + 1, hi))

\* np.fft.fft of x (a function on 0..n-1 of ring elements)
Fft(x, n) ==
    [k \in 0..(n - 1) |->
        ZSum([t \in 0..(n - 1) |->
                 ZRotN(x[t], (12 - (12 \div n) * ((t * k) % n)) % 12)],
             0, n - 1)]

\* n * np.fft.ifft(X): the inverse transform before its division by n
IfftN(X, n) ==
    [t \in 0..(n - 1) |->
        ZSum([k \in 0..(n - 1) |->
                 ZRotN(X[k], (12 \div n) * ((t * k) % n))],
             0, n - 1)]

\* 2 * n * np.real(np.fft.ifft(X))
Ifft2T(X, n) == [t \in 0..(n - 1) |-> ZTwiceReal(IfftN(X, n)[t])]

\* -------------------------------------------------------------------------
\* The random generator: np.random.rand(k) draws k numbers u in [0, 1) from
\* the global generator, a deterministic function of its state.  The state
\* is that of a full-period congruential generator modulo 144 and a draw u
\* is state \div 12, in twelfths.
\* -------------------------------------------------------------------------
NextRng(r) == (13 * r + 7) % 144

RECURSIVE RngAfter(_, _)
RngAfter(r, k) == IF k = 0 THEN r ELSE RngAfter(NextRng(r), k - 1)

\* np.random.rand(k) of a generator whose stream the seed does not fix: the
\* draws of the second call differ from those of the first
RandOwnStream(r, k) == [m \in 1..k |-> (RngAfter(r, m) \div 12 + call) % 12]

\* np.random.rand(k), in twelfths
Rand(r, k) == [m \in 1..k |-> RngAfter(r, m) \div 12]

\* np.exp(2.0 * np.pi * 1j * u) elementwise
ExpPhases(u) == [m \in 1..Len(u) |-> ZRotN(ZInt(1), u[m])]

\* -------------------------------------------------------------------------
\* generate_surrogate
\* -------------------------------------------------------------------------
NumTimePoints == Cardinality(DOMAIN original_data)

\* np.arange(lo, hi)
Arange(lo, hi) == [m \in 1..(IF hi > lo THEN hi - lo ELSE 0) |-> lo + m - 1]

HalfLen(n) == (n - 1) \div 2

Idx1(n) == Arange(1, HalfLen(n) + 1)

Idx2Overlap(n) == Arange(HalfLen(n), n)

Idx2(n) == Arange(HalfLen(n) + 1, n)

\* length of a[idx] * ph under numpy broadcasting, -1 when the shapes do not
\* broadcast (ValueError)
MulLen(a, b) ==
    IF a = b THEN a
    ELSE IF a = 1 THEN b
    ELSE IF b = 1 THEN a
    ELSE -1

\* whether  target[idx] = source[idx] * ph  is accepted by numpy
AssignOk(idx, ph) ==
    LET l == MulLen(Len(idx), Len(ph))
    IN  l = Len(idx) \/ l = 1

\* target after  target[idx] = source[idx] * ph
AssignMul(target, source, idx, ph) ==
    [k \in DOMAIN target |->
        IF \E m \in 1..Len(idx) : idx[m] = k
        THEN LET m == CHOOSE m \in 1..Len(idx) : idx[m] = k
             IN  ZMul(source[k], IF Len(ph) = 1 THEN ph[1] ELSE ph[m])
        ELSE target[k]]

Touch(w, idx) ==
    [k \in DOMAIN w |-> IF \E m \in 1..Len(idx) : idx[m] = k THEN w[k] + 1 ELSE w[k]]

\* the variables of the specifications that are not running
IdleGen ==
    /\ original_data = <<>>
    /\ seed = 0
    /\ rng = 0
    /\ call = 0
    /\ s = 0
    /\ ic = 0
    /\ pc = "idle"
    /\ original_fft = <<>>
    /\ phases1 = <<>>
    /\ phases2 = <<>>
    /\ surrogate_fft = <<>>
    /\ written = <<>>
    /\ surrogate_data = <<>>
    /\ first_run = <<>>

IdleSig ==
    /\ my_pvalue = 0
    /\ sig_pc = "idle"
    /\ dDTF_og = <<>>
    /\ su = <<>>
    /\ sig_s = 0
    /\ failed = {}
    /\ p_values = <<>>
    /\ sig_i = 0
    /\ sig_j = 0
    /\ significant_connections = <<>>
    /\ network = <<>>

IdleDtf ==
    /\ dtf_pc = "idle"
    /\ data = <<>>
    /\ A_n = <<>>
    /\ errors = <<>>
    /\ H = <<>>
    /\ H_h = <<>>
    /\ V = <<>>
    /\ S_f = <<>>
    /\ dDTF_ij = <<>>
    /\ degrees = <<>>

ZeroTensor(n) ==
    [a \in 0..(NumSets - 1) |-> [t \in 0..(n - 1) |-> [c \in 0..(NumICs - 1) |-> ZZero]]]

InitGen ==
    /\ \E n \in Lens :
          original_data \in [0..(n - 1) -> [0..(NumICs - 1) -> DataVals]]
    /\ seed \in 0..MaxSeed
    /\ rng = seed
    /\ call = 1
    /\ s = 0
    /\ ic = 0
    /\ pc = "fft"
    /\ original_fft = <<>>
    /\ phases1 = <<>>
    /\ phases2 = <<>>
    /\ surrogate_fft = <<>>
    /\ written = <<>>
    /\ surrogate_data = ZeroTensor(NumTimePoints)
    /\ first_run = <<>>
    /\ IdleSig
    /\ IdleDtf

\* lines 27-40: transform, index sets, the two draws of half_len phases, zeros
GenFft ==
    /\ pc = "fft"
    /\ UNCHANGED <<varsSig, varsDtf>>
    /\ LET n == NumTimePoints
           h == HalfLen(n)
       IN  /\ original_fft' = Fft([t \in 0..(n - 1) |-> ZInt(original_data[t][ic])], n)
           /\ phases1' = ExpPhases(Rand(rng, h))
           /\ phases2' = ExpPhases(Rand(RngAfter(rng, h), h))
           /\ rng' = RngAfter(rng, 2 * h)
           /\ surrogate_fft' = [k \in 0..(n - 1) |-> ZZero]
           /\ written' = [k \in 0..(n - 1) |-> 0]
    /\ pc' = "dc"
    /\ UNCHANGED <<original_data, seed, call, s, ic, surrogate_data, first_run>>

\* line 41
GenDC ==
    /\ pc = "dc"
    /\ UNCHANGED <<varsSig, varsDtf>>
    /\ surrogate_fft' = [surrogate_fft EXCEPT ![0] = original_fft[0]]
    /\ written' = [written EXCEPT ![0] = @ + 1]
    /\ pc' = "half1"
    /\ UNCHANGED <<original_data, seed, rng, call, s, ic, original_fft, phases1,
                   phases2, surrogate_data, first_run>>

\* line 42
GenHalf1 ==
    /\ pc = "half1"
    /\ UNCHANGED <<varsSig, varsDtf>>
    /\ LET idx1 == Idx1(NumTimePoints)
       IN  IF AssignOk(idx1, phases1)
           THEN /\ surrogate_fft' = AssignMul(surrogate_fft, original_fft, idx1, phases1)
                /\ written' = Touch(written, idx1)
                /\ pc' = "half2"
           ELSE /\ pc' = "raised"
                /\ UNCHANGED <<surrogate_fft, written>>
    /\ UNCHANGED <<original_data, seed, rng, call, s, ic, original_fft, phases1,
                   phases2, surrogate_data, first_run>>

\* lines 43-44
GenHalf2 ==
    /\ pc = "half2"
    /\ UNCHANGED <<varsSig, varsDtf>>
    /\ LET idx2 == Idx2(NumTimePoints)
       IN  /\ phases2' = ExpPhases(Rand(rng, Len(idx2)))
           /\ rng' = RngAfter(rng, Len(idx2))
           /\ IF AssignOk(idx2, phases2')
              THEN /\ surrogate_fft' =
                          AssignMul(surrogate_fft, original_fft, idx2, phases2')
                   /\ written' = Touch(written, idx2)
                   /\ pc' = "ifft"
              ELSE /\ pc' = "raised"
                   /\ UNCHANGED <<surrogate_fft, written>>
    /\ UNCHANGED <<original_data, seed, call, s, ic, original_fft, phases1,
                   surrogate_data, first_run>>

\* line 47 and the advance of the loops of lines 24-25
GenIfft ==
    /\ pc = "ifft"
    /\ UNCHANGED <<varsSig, varsDtf>>
    /\ LET n == NumTimePoints
           x == Ifft2T(surrogate_fft, n)
       IN  surrogate_data' =
               [surrogate_data EXCEPT ![s] =
                   [t \in 0..(n - 1) |-> [@[t] EXCEPT ![ic] = x[t]]]]
    /\ IF ic + 1 < NumICs
       THEN /\ ic' = ic + 1
            /\ s' = s
            /\ pc' = "fft"
       ELSE IF s + 1 < NumSets
       THEN /\ ic' = 0
            /\ s' = s + 1
            /\ pc' = "fft"
       ELSE /\ pc' = "return"
            /\ UNCHANGED <<s, ic>>
    /\ UNCHANGED <<original_data, seed, rng, call, original_fft, phases1, phases2,
                   surrogate_fft, written, first_run>>

\* line 49
GenReturn ==
    /\ pc = "return"
    /\ UNCHANGED <<varsSig, varsDtf>>
    /\ pc' = "returned"
    /\ first_run' = IF call = 1 THEN surrogate_data ELSE first_run
    /\ UNCHANGED <<original_data, seed, rng, call, s, ic, original_fft, phases1,
                   phases2, surrogate_fft, written, surrogate_data>>

\* the caller fixes the seed again and calls generate_surrogate a second time
\* (lines 22-23)
GenCallAgain ==
    /\ pc = "returned"
    /\ UNCHANGED <<varsSig, varsDtf>>
    /\ call = 1
    /\ call' = 2
    /\ rng' = seed
    /\ s' = 0
    /\ ic' = 0
    /\ pc' = "fft"
    /\ surrogate_data' = ZeroTensor(NumTimePoints)
    /\ UNCHANGED <<original_data, seed, original_fft, phases1, phases2,
                   surrogate_fft, written, first_run>>

NextGen ==
    \/ GenFft
    \/ GenDC
    \/ GenHalf1
    \/ GenHalf2
    \/ GenIfft
    \/ GenReturn
    \/ GenCallAgain

SpecGen == InitGen /\ [][NextGen]_vars

\* -------------------------------------------------------------------------
\* Claims about generate_surrogate
\* -------------------------------------------------------------------------
Column(x, c) == [t \in DOMAIN x |-> x[t][c]]

Range(f) == {f[m] : m \in DOMAIN f}

\* C3: for every surrogate set, channel and frequency bin, the magnitude of
\* the Fourier transform of the returned surrogate channel (the real part kept
\* after the inverse transform) equals the magnitude of the Fourier transform
\* of the original channel.  surrogate_data holds 2*T times the real value, so
\* the squared magnitudes differ by the factor (2*T)^2.
GenSpectrumPreserved ==
    pc = "returned" =>
        LET n == NumTimePoints
        IN  \A a \in 0..(NumSets - 1), c \in 0..(NumICs - 1), k \in 0..(n - 1) :
                ZAbs2(Fft(Column(surrogate_data[a], c), n)[k])
                    = ZScale(4 * n * n,
                             ZAbs2(Fft([t \in 0..(n - 1) |-> ZInt(original_data[t][c])],
                                       n)[k]))

GenBinsAssignedOnce ==
    /\ pc # "raised"
    /\ pc = "ifft" =>
          LET n == NumTimePoints
              idx1 == Idx1(n)
              idx2 == Idx2(n)
          IN  /\ Range(idx1) \cap Range(idx2) = {}
              /\ Range(idx1) \cup Range(idx2) = 1..(n - 1)
              /\ Cardinality(Range(idx1)) = Len(idx1)
              /\ Cardinality(Range(idx2)) = Len(idx2)
              /\ Len(phases1) = Len(idx1)
              /\ Len(phases2) = Len(idx2)
              /\ \A k \in 0..(n - 1) : written[k] = 1
              /\ surrogate_fft[0] = original_fft[0]
              /\ \A k \in 1..(n - 1) :
                    \E m \in 0..11 : surrogate_fft[k] = ZRotN(original_fft[k], m)

GenBinsAssignedOnceWitness ==
    /\ pc = "ifft"
    /\ NumTimePoints = 4
    /\ \A k \in 0..3 : written[k] = 1 /\ original_fft[k] # ZZero
    /\ \E k \in 1..3 : surrogate_fft[k] # original_fft[k]

\* -------------------------------------------------------------------------
\* significance_testing
\*
\* |dDTF| values are natural numbers.  What the connectivity pipeline returns
\* for a series (mGrangerdDTF(data).dDTF_ij, lines 63 and 71) is one of the
\* matrices AbsDTF(k), or the pipeline raises (np.linalg.inv on a singular
\* slice).
\* -------------------------------------------------------------------------
SigSets == 3
SigICs == 2
MaxDTF == 3

SigIdx == 0..(SigICs - 1)

AbsDTF(k) == [i \in SigIdx |-> [j \in SigIdx |-> IF i <= j THEN k ELSE (k + 1) \div 2]]

\* the significance levels a caller passes, per mille, ascending
PLevels == <<10, 50, 250>>

\* Student's t: TCrit[df][l] is 1000 times the value c with
\* P(T > c) = PLevels[l] / 1000 for df degrees of freedom, to three decimals
\* (no t statistic of the model's integer data lies that close to a value)
TCrit ==
    << <<31821, 6314, 1000>>,
       << 6965, 2920,  816>>,
       << 4541, 2353,  765>>,
       << 3747, 2132,  741>>,
       << 3365, 2015,  727>> >>

RECURSIVE SumOver(_, _, _)
SumOver(f, lo, hi) == IF lo > hi THEN 0 ELSE f[lo] + SumOver(f, lo + 1, hi)

\* n * (mean of a  -  popmean)
MeanGap(a, n, popmean) == SumOver(a, 0, n - 1) - n * popmean

\* n * n * (population variance of a)
Spread(a, n) ==
    n * SumOver([m \in 0..(n - 1) |-> a[m] * a[m]], 0, n - 1)
        - SumOver(a, 0, n - 1) * SumOver(a, 0, n - 1)

\* scipy.stats.ttest_1samp(a, popmean) followed by the halving of line 81.
\* t = (mean - popmean) / sqrt(var / n), so t^2 = (n-1) * MeanGap^2 / Spread;
\* the two-tailed p-value is 2 * P(T > |t|) and its half is P(T > |t|).
\* The p-value is nan when t is 0/0 and 0 when |t| is infinite; otherwise it
\* is kept as its rank among the levels: the number of levels l with
\* PLevels[l] <= p, which is the number of l with |t| <= TCrit[n-1][l].
HalfPValue(a, n, popmean) ==
    LET d == MeanGap(a, n, popmean)
        q == Spread(a, n)
    IN  IF n < 2 \/ (q = 0 /\ d = 0) THEN [nan |-> TRUE, rank |-> 0]
        ELSE IF q = 0 THEN [nan |-> FALSE, rank |-> 0]
        ELSE [nan |-> FALSE,
              rank |-> Cardinality({l \in 1..Len(PLevels) :
                          (n - 1) * d * d * 1000000
                              <= TCrit[n - 1][l] * TCrit[n - 1][l] * q})]

\* p < PLevels[alpha] (line 84); a comparison with nan is False
PLess(p, alpha) == ~p.nan /\ p.rank < alpha

\* the product of a value with a boolean, returned without the mask
PruneKeep(d, m) == d

\* the product of a value with a boolean (line 92)
Prune(d, m) == IF m THEN d ELSE 0

ZeroMatrix == [i \in SigIdx |-> [j \in SigIdx |-> 0]]

\* su[:, i, j] (line 79)
NullValues(i, j) == [a \in 0..(SigSets - 1) |-> su[a][i][j]]

InitSig ==
    /\ my_pvalue \in 1..Len(PLevels)
    /\ sig_pc = "original"
    /\ dDTF_og = <<>>
    /\ su = <<>>
    /\ sig_s = 0
    /\ failed = {}
    /\ p_values = <<>>
    /\ sig_i = 0
    /\ sig_j = 0
    /\ significant_connections = <<>>
    /\ network = <<>>
    /\ IdleGen
    /\ IdleDtf

\* lines 63-68: the pipeline on the original series, which may raise
SigOriginal ==
    /\ sig_pc = "original"
    /\ UNCHANGED <<varsGen, varsDtf>>
    /\ \/ /\ \E k \in 0..MaxDTF : dDTF_og' = AbsDTF(k)
          /\ p_values' = [i \in SigIdx |-> [j \in SigIdx |-> [nan |-> FALSE, rank |-> 0]]]
          /\ su' = [a \in 0..(SigSets - 1) |-> ZeroMatrix]
          /\ sig_pc' = "surrogates"
       \/ /\ sig_pc' = "raised"
          /\ UNCHANGED <<dDTF_og, p_values, su>>
    /\ UNCHANGED <<my_pvalue, sig_s, failed, sig_i, sig_j, significant_connections,
                   network>>

\* lines 69-73 with a failing set caught and skipped
SigSurrogateSkip ==
    /\ sig_pc = "surrogates"
    /\ UNCHANGED <<varsGen, varsDtf>>
    /\ \/ /\ \E k \in 0..MaxDTF : su' = [su EXCEPT ![sig_s] = AbsDTF(k)]
          /\ UNCHANGED failed
       \/ /\ failed' = failed \cup {sig_s}
          /\ UNCHANGED su
    /\ IF sig_s + 1 < SigSets
       THEN sig_s' = sig_s + 1 /\ sig_pc' = "surrogates"
       ELSE sig_s' = sig_s /\ sig_pc' = "ttest"
    /\ UNCHANGED <<my_pvalue, dDTF_og, p_values, sig_i, sig_j,
                   significant_connections, network>>

\* lines 69-73: one surrogate set through the pipeline; an exception raised
\* by the constructor leaves significance_testing
SigSurrogate ==
    /\ sig_pc = "surrogates"
    /\ UNCHANGED <<varsGen, varsDtf>>
    /\ \/ /\ \E k \in 0..MaxDTF : su' = [su EXCEPT ![sig_s] = AbsDTF(k)]
          /\ IF sig_s + 1 < SigSets
             THEN sig_s' = sig_s + 1 /\ sig_pc' = "surrogates"
             ELSE sig_s' = sig_s /\ sig_pc' = "ttest"
          /\ UNCHANGED failed
       \/ /\ failed' = failed \cup {sig_s}
          /\ sig_pc' = "raised"
          /\ UNCHANGED <<su, sig_s>>
    /\ UNCHANGED <<my_pvalue, dDTF_og, p_values, sig_i, sig_j,
                   significant_connections, network>>

\* lines 76-81: the test of one pair
SigTtest ==
    /\ sig_pc = "ttest"
    /\ UNCHANGED <<varsGen, varsDtf>>
    /\ LET original_value == dDTF_og[sig_i][sig_j]
           surrogate_values == NullValues(sig_i, sig_j)
       IN  p_values' = [p_values EXCEPT ![sig_i][sig_j] =
                           HalfPValue(surrogate_values, SigSets, original_value)]
    /\ IF sig_j + 1 < SigICs
       THEN sig_j' = sig_j + 1 /\ sig_i' = sig_i /\ sig_pc' = "ttest"
       ELSE IF sig_i + 1 < SigICs
       THEN sig_j' = 0 /\ sig_i' = sig_i + 1 /\ sig_pc' = "ttest"
       ELSE sig_pc' = "mask" /\ UNCHANGED <<sig_i, sig_j>>
    /\ UNCHANGED <<my_pvalue, dDTF_og, su, sig_s, failed, significant_connections,
                   network>>

\* lines 84-92
SigMask ==
    /\ sig_pc = "mask"
    /\ UNCHANGED <<varsGen, varsDtf>>
    /\ significant_connections' =
          [i \in SigIdx |-> [j \in SigIdx |-> PLess(p_values[i][j], my_pvalue)]]
    /\ network' =
          [i \in SigIdx |-> [j \in SigIdx |->
              Prune(dDTF_og[i][j], significant_connections'[i][j])]]
    /\ sig_pc' = "returned"
    /\ UNCHANGED <<my_pvalue, dDTF_og, su, sig_s, failed, p_values, sig_i, sig_j>>

NextSig ==
    \/ SigOriginal
    \/ SigSurrogate
    \/ SigTtest
    \/ SigMask

SpecSig == InitSig /\ [][NextSig]_vars

\* -------------------------------------------------------------------------
\* Claims about significance_testing
\* -------------------------------------------------------------------------
\* C1: the returned matrix holds, for every pair, the original |dDTF| value
\* when the pair's p-value is strictly below the significance level, and 0
\* otherwise.
SigPrunedNetwork ==
    sig_pc = "returned" =>
        /\ DOMAIN network = SigIdx
        /\ \A i \in SigIdx :
              /\ DOMAIN network[i] = SigIdx
              /\ \A j \in SigIdx :
                    network[i][j] = IF PLess(p_values[i][j], my_pvalue)
                                    THEN dDTF_og[i][j]
                                    ELSE 0

SigPrunedNetworkWitness ==
    /\ sig_pc = "returned"
    /\ \E i \in SigIdx, j \in SigIdx :
          PLess(p_values[i][j], my_pvalue) /\ network[i][j] > 0
    /\ \E i \in SigIdx, j \in SigIdx :
          ~PLess(p_values[i][j], my_pvalue) /\ dDTF_og[i][j] > 0 /\ network[i][j] = 0

\* C2: a pair whose observed value is smaller than the mean of its surrogate
\* values is never marked significant and is suppressed in the returned
\* network.  Stated for the pairs whose surrogate values are not all equal,
\* where the t statistic is finite.
SigOneTailed ==
    sig_pc = "returned" =>
        \A i \in SigIdx, j \in SigIdx :
            (/\ MeanGap(NullValues(i, j), SigSets, dDTF_og[i][j]) > 0
             /\ Spread(NullValues(i, j), SigSets) > 0)
                => (~significant_connections[i][j] /\ network[i][j] = 0)

\* C5: when the pipeline raises on a surrogate set the batch stops at that
\* set: the exception leaves significance_testing, no later set is processed,
\* no network is returned, and no p-value is computed from a distribution
\* with the failed set skipped or left at zero.
SigAbortsOnFailure ==
    /\ failed # {} => /\ sig_pc = "raised"
                      /\ failed = {sig_s}
                      /\ network = <<>>
                      /\ \A a \in (sig_s + 1)..(SigSets - 1) : su[a] = ZeroMatrix
    /\ sig_pc \in {"ttest", "mask", "returned"} => failed = {}

SigAbortsOnFailureWitness ==
    /\ sig_pc = "raised"
    /\ failed = {1}
    /\ su[0] # ZeroMatrix

\* C6: if the surrogate values of some pair have zero variance,
\* significance_testing fails with an error and returns no network.
SigDegenerateNullRejected ==
    sig_pc = "returned" =>
        \A i \in SigIdx, j \in SigIdx : Spread(NullValues(i, j), SigSets) # 0

\* -------------------------------------------------------------------------
\* The connectivity pipeline (mGrangerdDTF.execute_sequence)
\*
\* compute_E, compute_H_h, compute_S_f and in_out_degree are computed as the
\* code computes them.  The results of the library calls in between (the VAR
\* fit, the matrix inverses, the variance of the transformed residuals, the
\* partial coherence) are drawn from small families of values.
\* -------------------------------------------------------------------------
DtfICs == 2
MaxTE == 5
MaxGain == 2
NumFreqs == 2
MaxH == 2
MaxV == 1
MaxD == 2

\* the order of the model (line 7); compute_A_n keeps the first lag only
order == 1

DtfIdx == 0..(DtfICs - 1)

FreqIdx == 0..(NumFreqs - 1)

\* entries of the fitted coefficient matrix
CoefVals == {0, 1}

\* the input series: channel c of the series of gain g
Series(g, n) == [t \in 0..(n - 1) |-> [c \in DtfIdx |-> g * (t + 1) * (t + 1) + c]]

\* a transfer matrix H(f) with Gaussian-integer entries
HMat(h) ==
    [i \in DtfIdx |-> [j \in DtfIdx |->
        ZRotN(ZInt(i + j + 1), 3 * ((h * (i + 2 * j)) % 4))]]

\* complex values of integer magnitude: 3+4i, -6-8i, 1, 5+12i, 0
DTFSeq == << <<3, 0, 0, 4>>, <<-6, 0, 0, -8>>, <<1, 0, 0, 0>>, <<5, 0, 0, 12>>, ZZero >>

\* a complex dDTF matrix
DDTF(k) == [i \in DtfIdx |-> [j \in DtfIdx |-> DTFSeq[((k + i + 2 * j) % Len(DTFSeq)) + 1]]]

\* np.dot of two vectors
Dot(u, v) == SumOver([c \in DtfIdx |-> u[c] * v[c]], 0, DtfICs - 1)

\* compute_E (lines 76-95): A is the two-dimensional self.A_n, so A.shape[0]
\* is its number of rows, coefficients[k] is row k of A and np.dot of it with
\* a row of observed_variables is a scalar, subtracted from the whole row
compute_E(x, A) ==
    LET n == Cardinality(DOMAIN x)
        lag_order == Cardinality(DOMAIN A)
        rows == IF n > lag_order THEN n - lag_order ELSE 0
        observed_variables == [m \in 0..(rows - 1) |-> x[m + lag_order]]
    IN  [r \in 0..(rows - 1) |->
            IF r + lag_order < rows
            THEN [c \in DtfIdx |->
                    observed_variables[r + lag_order][c]
                        - SumOver([lag \in 1..lag_order |->
                                      Dot(A[lag - 1],
                                          observed_variables[r + lag_order - lag])],
                                  1, lag_order)]
            ELSE [c \in DtfIdx |-> 0]]

\* compute_H_h (lines 164-171)
compute_H_h(matrix) ==
    [f \in DOMAIN matrix |-> [i \in DtfIdx |-> [j \in DtfIdx |-> ZConj(matrix[f][j][i])]]]

\* compute_S_f (lines 215-221): the products of line 218 are elementwise
compute_S_f(h, hh, v) ==
    [f \in DOMAIN h |-> [i \in DtfIdx |-> [j \in DtfIdx |->
        ZMul(ZScale(v[f], h[f][i][j]), hh[f][i][j])]]]

\* np.abs of a Gaussian integer of integer magnitude
NpAbs(x) ==
    LET q == x[1] * x[1] + x[4] * x[4]
    IN  CHOOSE m \in 0..q : m * m = q

\* in_out_degree with the two axes exchanged
in_out_degree_swapped(ddtf_matrix) ==
    LET in_d == [i \in DtfIdx |->
                    SumOver([j \in DtfIdx |-> NpAbs(ddtf_matrix[j][i])], 0, DtfICs - 1)]
        out_d == [j \in DtfIdx |->
                    SumOver([i \in DtfIdx |-> NpAbs(ddtf_matrix[j][i])], 0, DtfICs - 1)]
    IN  [in_degree |-> in_d, out_degree |-> out_d,
         in_and_out |-> [i \in DtfIdx |-> in_d[i] + out_d[i]]]

\* in_out_degree (lines 285-289): np.sum over axis 1 and over axis 0
in_out_degree(ddtf_matrix) ==
    LET in_d == [i \in DtfIdx |->
                    SumOver([j \in DtfIdx |-> NpAbs(ddtf_matrix[i][j])], 0, DtfICs - 1)]
        out_d == [j \in DtfIdx |->
                    SumOver([i \in DtfIdx |-> NpAbs(ddtf_matrix[i][j])], 0, DtfICs - 1)]
    IN  [in_degree |-> in_d, out_degree |-> out_d,
         in_and_out |-> [i \in DtfIdx |-> in_d[i] + out_d[i]]]

InitDtf ==
    /\ dtf_pc = "A_n"
    /\ \E g \in 1..MaxGain, n \in 2..MaxTE : data = Series(g, n)
    /\ A_n = <<>>
    /\ errors = <<>>
    /\ H = <<>>
    /\ H_h = <<>>
    /\ V = <<>>
    /\ S_f = <<>>
    /\ dDTF_ij = <<>>
    /\ degrees = <<>>
    /\ IdleGen
    /\ IdleSig

\* line 293: the first lag matrix of the fitted model
ComputeAn ==
    /\ dtf_pc = "A_n"
    /\ UNCHANGED <<varsGen, varsSig>>
    /\ \E a \in CoefVals, b \in CoefVals :
          A_n' = [i \in DtfIdx |-> [j \in DtfIdx |-> IF i = j THEN a ELSE b]]
    /\ dtf_pc' = "E"
    /\ UNCHANGED <<data, errors, H, H_h, V, S_f, dDTF_ij, degrees>>

\* line 294
ComputeE ==
    /\ dtf_pc = "E"
    /\ UNCHANGED <<varsGen, varsSig>>
    /\ errors' = compute_E(data, A_n)
    /\ dtf_pc' = "H"
    /\ UNCHANGED <<data, A_n, H, H_h, V, S_f, dDTF_ij, degrees>>

\* lines 295-298: A(f) and its inverse, which raises on a singular slice
ComputeHf ==
    /\ dtf_pc = "H"
    /\ UNCHANGED <<varsGen, varsSig>>
    /\ \/ /\ \E h \in [FreqIdx -> 0..MaxH] : H' = [f \in FreqIdx |-> HMat(h[f])]
          /\ dtf_pc' = "H_h"
       \/ /\ dtf_pc' = "raised"
          /\ UNCHANGED H
    /\ UNCHANGED <<data, A_n, errors, H_h, V, S_f, dDTF_ij, degrees>>

\* line 299
ComputeHh ==
    /\ dtf_pc = "H_h"
    /\ UNCHANGED <<varsGen, varsSig>>
    /\ H_h' = compute_H_h(H)
    /\ dtf_pc' = "V"
    /\ UNCHANGED <<data, A_n, errors, H, V, S_f, dDTF_ij, degrees>>

\* lines 300-303: every frequency slice of errors_f is the same transform of
\* the residuals (line 196), so the variance is the same for every frequency
ComputeV ==
    /\ dtf_pc = "V"
    /\ UNCHANGED <<varsGen, varsSig>>
    /\ \E v \in 0..MaxV : V' = [f \in FreqIdx |-> v]
    /\ dtf_pc' = "S_f"
    /\ UNCHANGED <<data, A_n, errors, H, H_h, S_f, dDTF_ij, degrees>>

\* line 304
ComputeSf ==
    /\ dtf_pc = "S_f"
    /\ UNCHANGED <<varsGen, varsSig>>
    /\ S_f' = compute_S_f(H, H_h, V)
    /\ dtf_pc' = "dDTF"
    /\ UNCHANGED <<data, A_n, errors, H, H_h, V, dDTF_ij, degrees>>

\* lines 305-307: partial coherence (which inverts S(f) and raises when it is
\* singular) and the dDTF matrix
ComputeDDTF ==
    /\ dtf_pc = "dDTF"
    /\ UNCHANGED <<varsGen, varsSig>>
    /\ \/ /\ \E k \in 0..MaxD : dDTF_ij' = DDTF(k)
          /\ dtf_pc' = "done"
       \/ /\ dtf_pc' = "raised"
          /\ UNCHANGED dDTF_ij
    /\ UNCHANGED <<data, A_n, errors, H, H_h, V, S_f, degrees>>

\* a call of in_out_degree on the dDTF matrix of the finished pipeline
InOutDegree ==
    /\ dtf_pc = "done"
    /\ UNCHANGED <<varsGen, varsSig>>
    /\ degrees' = in_out_degree(dDTF_ij)
    /\ dtf_pc' = "degrees"
    /\ UNCHANGED <<data, A_n, errors, H, H_h, V, S_f, dDTF_ij>>

NextDtf ==
    \/ ComputeAn
    \/ ComputeE
    \/ ComputeHf
    \/ ComputeHh
    \/ ComputeV
    \/ ComputeSf
    \/ ComputeDDTF
    \/ InOutDegree

SpecDtf == InitDtf /\ [][NextDtf]_vars

\* -------------------------------------------------------------------------
\* Claims about the pipeline
\* -------------------------------------------------------------------------
\* C4: in_degree is the vector of row sums of |dDTF|, out_degree the vector
\* of column sums, and in_and_out their elementwise sum.
DegreesAreRowAndColumnSums ==
    dtf_pc = "degrees" =>
        \A i \in DtfIdx :
            /\ degrees.in_degree[i]
                  = SumOver([j \in DtfIdx |-> NpAbs(dDTF_ij[i][j])], 0, DtfICs - 1)
            /\ degrees.out_degree[i]
                  = SumOver([j \in DtfIdx |-> NpAbs(dDTF_ij[j][i])], 0, DtfICs - 1)
            /\ degrees.in_and_out[i] = degrees.in_degree[i] + degrees.out_degree[i]

DegreesWitness ==
    /\ dtf_pc = "degrees"
    /\ \E i \in DtfIdx : degrees.in_degree[i] # degrees.out_degree[i]
    /\ \E i \in DtfIdx, j \in DtfIdx : dDTF_ij[i][j][4] # 0

\* C8: the residual matrix has T-p rows and its row for each time t in
\* p..T-1 is X(t) minus the prediction A(1) X(t-1) (p = 1, a matrix-vector
\* product); no row is left at zero without being computed.
ResidualsAreModelErrors ==
    dtf_pc = "H" =>
        LET n == Cardinality(DOMAIN data)
        IN  /\ DOMAIN errors = 0..(n - order - 1)
            /\ \A t \in order..(n - 1) :
                  errors[t - order]
                      = [c \in DtfIdx |-> data[t][c] - Dot(A_n[c], data[t - 1])]

\* C9: S(f) is the matrix product H(f) V(f) H^H(f): entry (i,j) is V(f)
\* times the sum over k of H(f)[i,k] times the conjugate of H(f)[j,k].
CrossSpectrumIsMatrixProduct ==
    dtf_pc = "dDTF" =>
        \A f \in FreqIdx, i \in DtfIdx, j \in DtfIdx :
            S_f[f][i][j]
                = ZScale(V[f],
                         ZSum([k \in DtfIdx |-> ZMul(H[f][i][k], ZConj(H[f][j][k]))],
                              0, DtfICs - 1))

====
